---------------------------- MODULE Spec2Model ----------------------------
(***************************************************************************)
(* Model of the Samsung N120/N130 backlight driver (samsung-backlight.c):  *)
(* the SABI command engine (sabi_get_command / sabi_set_command), the      *)
(* brightness adapter, the signature scan and the init / exit lifecycle.   *)
(*                                                                         *)
(* Program positions are named after the source line about to execute:     *)
(* pc[p] = "L132" means that thread p is about to execute line 132.        *)
(***************************************************************************)
EXTENDS Integers, Sequences, FiniteSets, TLC

(***************************************************************************)
(* Program constants                                                        *)
(***************************************************************************)
MAX_BRIGHT == 7
SABI_GET_MODEL == 4
SABI_GET_BRIGHTNESS == 16
SABI_SET_BRIGHTNESS == 17
SABI_GET_WIRELESS_BUTTON == 18
SABI_GET_CPU_TEMP == 41
SABI_GET_BACKLIGHT == 45
SABI_SET_BACKLIGHT == 46
SABI_GET_ETIQUETTE_MODE == 49
\* 0x5843, the main function code written to sabi_iface->mainfunc
MAINFUNC_MAGIC == 22595
\* 0xaa, the completion flag tested by the engine
COMPLETE_OK == 170
\* 0xff, the retval[0] value that marks a failed command
RETVAL_FAIL == 255
\* errno values returned negated
EINVAL == 22
ENODEV == 19
\* msleep(100)
SLEEP_MS == 100
\* offsets of the packed fields of struct sabi_header
OFF_portNo == 0
OFF_ifaceFunc == 2
OFF_enMem == 3
OFF_reMem == 4
OFF_dataOffset == 5
OFF_dataSegment == 7
OFF_BIOSifver == 9
OFF_LauncherString == 10
\* u8 retval[20] of struct sabi_interface and of struct sabi_retval
RETVAL_LEN == 20
\* the bytes of retval that sabi_get_command copies to the caller
COPY_LEN == 4
\* 2^16: a u16 holds 0 .. WORD - 1, an unsigned int is two such halves
WORD == 65536
\* sizeof(struct sabi_header), packed
HEADER_SIZE == 11
\* const char *testStr = "SwSmi@" as bytes
testStr == <<83, 119, 83, 109, 105, 64>>

(***************************************************************************)
(* Bounds of the model                                                      *)
(***************************************************************************)
\* number of threads of the harness that call the engine concurrently
NumCallers == 2
\* largest raw level the firmware answers with (besides 0xff)
MaxRaw == 8
\* length of the buffers the scan is checked on
ScanLen == 7
\* bytes in front of the signature in the firmware windows of the lifecycle
MaxPad == 1

VARIABLES
    mem,              \* bytes of the firmware window mapped at 0xf0000
    f0000_segment,    \* "NULL" | "mapped" | "unmapped"
    sabi,             \* offset of the header in the window, -1 while unset
    sabi_iface,       \* "NULL" | "mapped" | "unmapped"
    iface,            \* struct sabi_interface: mainfunc, subfunc, complete, retval
    sdev,             \* "NULL" | "registered" | "ERR" | "unregistered"
    backlight_device, \* "NULL" | "registered" | "ERR" | "unregistered"
    brightness,       \* backlight_device->props.brightness
    sabi_mutex,       \* the thread holding the mutex, if any
    lastOut,          \* last byte written to the SMI port, -1 before any write
    fwPending,        \* the firmware was triggered and has not answered yet
    fwWroteAA,        \* history: the firmware has set complete to 0xaa
    fwAnswered,       \* history: the firmware has answered the last trigger
    pc,               \* position of every thread
    ctx,              \* the call site a thread returns to
    call,             \* arguments of the engine call in progress
    rv,               \* local retval of the engine call
    sret,             \* the caller's struct sabi_retval (first 4 bytes)
    seen,             \* history: complete and retval[0] when validated
    steps,            \* history: the steps of the engine call in progress
    loca, pStr,       \* locals of the signature scan
    initRet,          \* value returned by samsung_init, "none" before
    reslog,           \* history: resource acquisitions and releases
    ub,               \* value returned by read_brightness
    fwVals,           \* the retval[0] values the firmware of this machine answers
    hw,               \* what the firmware stores: brightness level, backlight switch
    ifaceP            \* unsigned int ifaceP of samsung_init

vars == << mem, f0000_segment, sabi, sabi_iface, iface, sdev, backlight_device,
           brightness, sabi_mutex, lastOut, fwPending, fwWroteAA, fwAnswered, pc, ctx,
           call,
           rv, sret, seen, steps, loca, pStr, initRet, reslog, ub, fwVals, hw,
           ifaceP >>

resVars  == << f0000_segment, sabi, sabi_iface, sdev, backlight_device,
               brightness, initRet, reslog, loca, pStr, ub, mem, fwVals, hw, ifaceP >>
portVars == << lastOut, fwPending, fwAnswered >>
engVars  == << iface, sabi_mutex, lastOut, fwPending, fwWroteAA, fwAnswered, ctx, call, rv,
               sret, seen, steps >>

\* the mutex is the set of its owners: empty when free
Free == {}
Main == <<"main", 0>>
Callers == {"caller"} \X (1 .. NumCallers)
\* the backlight core calls update_status under its update_lock: one call at a time
Updater == <<"updater", 0>>

NoCall == [fn |-> "none", command |-> 0, data |-> 0]
NoSeen == [complete |-> -1, retval0 |-> -1, answered |-> FALSE]
\* content of a struct sabi_retval on the stack before the call fills it
Garbage == [i \in 1 .. RETVAL_LEN |-> 99]
Zeros(n) == [i \in 1 .. n |-> 0]
\* the firmware's stores before any command
NoHw == [brightness |-> 0, backlight |-> 0]

(***************************************************************************)
(* The header, read through the sabi pointer (readb / readw are            *)
(* little-endian reads of the mapped window)                               *)
(***************************************************************************)
readb(off) == mem[off + 1]
readw(off) == mem[off + 1] + 256 * mem[off + 2]

hdr_portNo      == readw(sabi + OFF_portNo)
hdr_ifaceFunc   == readb(sabi + OFF_ifaceFunc)
hdr_enMem       == readb(sabi + OFF_enMem)
hdr_reMem_unrestored == readb(sabi + OFF_enMem)
hdr_reMem       == readb(sabi + OFF_reMem)
hdr_dataOffset  == readw(sabi + OFF_dataOffset)
hdr_dataSegment == readw(sabi + OFF_dataSegment)

\* the 11 bytes of a packed struct sabi_header
HeaderBytes(h) ==
    << h.portNo % 256, h.portNo \div 256, h.ifaceFunc, h.enMem, h.reMem,
       h.dataOffset % 256, h.dataOffset \div 256,
       h.dataSegment % 256, h.dataSegment \div 256,
       h.BIOSifver, h.LauncherString >>

\* a header as the BIOS of these machines lays it out: port 0xb2, distinct codes
TheHeader == [portNo |-> 178, ifaceFunc |-> 192, enMem |-> 193, reMem |-> 194,
              dataOffset |-> 32, dataSegment |-> 4096,
              BIOSifver |-> 1, LauncherString |-> 0]

(***************************************************************************)
(* The firmware: once triggered by the interface-function code on the SMI  *)
(* port it may answer, inside the sleep of the call, by writing complete   *)
(* and retval; it may also not answer at all.                              *)
(***************************************************************************)
RawVals == (0 .. MaxRaw) \cup {RETVAL_FAIL}
FwRetvals == { <<r, 49, 51, 48>> \o Zeros(RETVAL_LEN - COPY_LEN) : r \in fwVals }
FwCompletes == {COMPLETE_OK, 85}

Firmware ==
    /\ fwPending
    /\ \E c \in FwCompletes, r \in FwRetvals \cup {iface.retval} :
          /\ iface' = [iface EXCEPT !.complete = c, !.retval = r]
          /\ fwWroteAA' = (fwWroteAA \/ c = COMPLETE_OK)
    /\ fwPending' = FALSE
    /\ fwAnswered' = TRUE
    /\ UNCHANGED << resVars, lastOut, sabi_mutex, pc, ctx, call, rv, sret,
                    seen, steps >>

(***************************************************************************)
(* Steps of the command engine                                              *)
(***************************************************************************)
Step(p, at, nxt, op, val) ==
    /\ pc[p] = at
    /\ pc' = [pc EXCEPT ![p] = nxt]
    /\ steps' = [steps EXCEPT ![p] = Append(@, [op |-> op, val |-> val])]

\* mutex_lock(&sabi_mutex): blocks until the mutex is free
mutex_lock_nowait(p) ==
    /\ sabi_mutex' = {p}
mutex_lock(p) ==
    /\ sabi_mutex = Free
    /\ sabi_mutex' = {p}

\* mutex_unlock(&sabi_mutex)
mutex_unlock(p) ==
    /\ sabi_mutex' = Free

\* outb(value, port): the firmware is triggered by the interface-function code
outb(value, port) ==
    /\ lastOut' = value
    /\ fwPending' = (value = hdr_ifaceFunc)
    /\ fwAnswered' = (fwAnswered /\ value # hdr_ifaceFunc)

\* msleep(100): returns after the delay, whatever the firmware has done
msleep_until_complete(ms) == iface.complete = COMPLETE_OK
msleep(ms) == TRUE

\* writeb(0, &sabi_iface->complete)
clear_complete_skipped == iface
clear_complete == [iface EXCEPT !.complete = 0]

\* the test of lines 147-148 and 197-198
command_succeeded_or(complete, retval0) ==
    complete = COMPLETE_OK \/ retval0 # RETVAL_FAIL
command_succeeded(complete, retval0) ==
    complete = COMPLETE_OK /\ retval0 # RETVAL_FAIL

\* lines 156-159: the first four bytes of the interface's retval go to the caller
copy_retval_all(dst, src) == src
copy_retval(dst, src) ==
    [i \in DOMAIN dst |-> IF i <= COPY_LEN THEN src[i] ELSE dst[i]]

\* a failed test falls through to the report; the command is not retried
get_failed_retry == "L138"
get_failed == "L164"
set_failed_retry == "L188"
set_failed == "L204"

\* readb(&sabi_iface->complete), readb(&sabi_iface->retval[0]) of the test
validate(p) ==
    /\ seen' = [seen EXCEPT ![p] = [complete |-> iface.complete,
                                    retval0 |-> iface.retval[1],
                                    answered |-> fwAnswered]]

sabi_get_command(p) ==
    \/ /\ Step(p, "L129", "L132", "mutex_lock", 0)
       /\ mutex_lock(p)
       /\ UNCHANGED << resVars, portVars, iface, fwWroteAA, ctx, call, rv, sret, seen >>
    \/ /\ Step(p, "L132", "L135", "outb", hdr_enMem)
       /\ outb(hdr_enMem, hdr_portNo)
       /\ UNCHANGED << resVars, sabi_mutex, iface, fwWroteAA, ctx, call, rv, sret, seen >>
    \/ /\ Step(p, "L135", "L136", "writew_mainfunc", MAINFUNC_MAGIC)
       /\ iface' = [iface EXCEPT !.mainfunc = MAINFUNC_MAGIC]
       /\ UNCHANGED << resVars, portVars, sabi_mutex, fwWroteAA, ctx, call, rv, sret, seen >>
    \/ /\ Step(p, "L136", "L137", "writew_subfunc", call[p].command)
       /\ iface' = [iface EXCEPT !.subfunc = call[p].command]
       /\ UNCHANGED << resVars, portVars, sabi_mutex, fwWroteAA, ctx, call, rv, sret, seen >>
    \/ /\ Step(p, "L137", "L138", "writeb_complete", 0)
       /\ iface' = clear_complete
       /\ UNCHANGED << resVars, portVars, sabi_mutex, fwWroteAA, ctx, call, rv, sret, seen >>
    \/ /\ Step(p, "L138", "L141", "outb", hdr_ifaceFunc)
       /\ outb(hdr_ifaceFunc, hdr_portNo)
       /\ UNCHANGED << resVars, sabi_mutex, iface, fwWroteAA, ctx, call, rv, sret, seen >>
    \/ /\ Step(p, "L141", "L144", "msleep", SLEEP_MS)
       /\ msleep(SLEEP_MS)
       /\ UNCHANGED << resVars, portVars, sabi_mutex, iface, fwWroteAA, ctx, call, rv, sret, seen >>
    \/ /\ Step(p, "L144", "L147", "outb", hdr_reMem)
       /\ outb(hdr_reMem, hdr_portNo)
       /\ UNCHANGED << resVars, sabi_mutex, iface, fwWroteAA, ctx, call, rv, sret, seen >>
    \/ /\ Step(p, "L147", IF command_succeeded(iface.complete, iface.retval[1])
                          THEN "L156" ELSE get_failed, "validate", 0)
       /\ validate(p)
       /\ UNCHANGED << resVars, portVars, sabi_mutex, iface, fwWroteAA, ctx, call, rv, sret >>
    \/ /\ Step(p, "L156", "L169", "copy", 0)
       /\ sret' = [sret EXCEPT ![p] = copy_retval(sret[p], iface.retval)]
       /\ UNCHANGED << resVars, portVars, sabi_mutex, iface, fwWroteAA, ctx, call, rv, seen >>
    \/ /\ Step(p, "L164", "L169", "printk", 0)
       /\ rv' = [rv EXCEPT ![p] = -EINVAL]
       /\ UNCHANGED << resVars, portVars, sabi_mutex, iface, fwWroteAA, ctx, call, sret, seen >>
    \* exit: mutex_unlock(&sabi_mutex); return retval
    \/ /\ Step(p, "L169", "returned", "mutex_unlock", 0)
       /\ mutex_unlock(p)
       /\ UNCHANGED << resVars, portVars, iface, fwWroteAA, ctx, call, rv, sret, seen >>

sabi_set_command(p) ==
    \/ /\ Step(p, "L178", "L181", "mutex_lock", 0)
       /\ mutex_lock(p)
       /\ UNCHANGED << resVars, portVars, iface, fwWroteAA, ctx, call, rv, sret, seen >>
    \/ /\ Step(p, "L181", "L184", "outb", hdr_enMem)
       /\ outb(hdr_enMem, hdr_portNo)
       /\ UNCHANGED << resVars, sabi_mutex, iface, fwWroteAA, ctx, call, rv, sret, seen >>
    \/ /\ Step(p, "L184", "L185", "writew_mainfunc", MAINFUNC_MAGIC)
       /\ iface' = [iface EXCEPT !.mainfunc = MAINFUNC_MAGIC]
       /\ UNCHANGED << resVars, portVars, sabi_mutex, fwWroteAA, ctx, call, rv, sret, seen >>
    \/ /\ Step(p, "L185", "L186", "writew_subfunc", call[p].command)
       /\ iface' = [iface EXCEPT !.subfunc = call[p].command]
       /\ UNCHANGED << resVars, portVars, sabi_mutex, fwWroteAA, ctx, call, rv, sret, seen >>
    \/ /\ Step(p, "L186", "L187", "writeb_complete", 0)
       /\ iface' = clear_complete
       /\ UNCHANGED << resVars, portVars, sabi_mutex, fwWroteAA, ctx, call, rv, sret, seen >>
    \/ /\ Step(p, "L187", "L188", "writeb_retval0", call[p].data)
       /\ iface' = [iface EXCEPT !.retval[1] = call[p].data]
       /\ UNCHANGED << resVars, portVars, sabi_mutex, fwWroteAA, ctx, call, rv, sret, seen >>
    \/ /\ Step(p, "L188", "L191", "outb", hdr_ifaceFunc)
       /\ outb(hdr_ifaceFunc, hdr_portNo)
       /\ UNCHANGED << resVars, sabi_mutex, iface, fwWroteAA, ctx, call, rv, sret, seen >>
    \/ /\ Step(p, "L191", "L194", "msleep", SLEEP_MS)
       /\ msleep(SLEEP_MS)
       /\ UNCHANGED << resVars, portVars, sabi_mutex, iface, fwWroteAA, ctx, call, rv, sret, seen >>
    \/ /\ Step(p, "L194", "L197", "outb", hdr_reMem)
       /\ outb(hdr_reMem, hdr_portNo)
       /\ UNCHANGED << resVars, sabi_mutex, iface, fwWroteAA, ctx, call, rv, sret, seen >>
    \/ /\ Step(p, "L197", IF command_succeeded(iface.complete, iface.retval[1])
                          THEN "L209" ELSE set_failed, "validate", 0)
       /\ validate(p)
       /\ UNCHANGED << resVars, portVars, sabi_mutex, iface, fwWroteAA, ctx, call, rv, sret >>
    \/ /\ Step(p, "L204", "L209", "printk", 0)
       /\ rv' = [rv EXCEPT ![p] = -EINVAL]
       /\ UNCHANGED << resVars, portVars, sabi_mutex, iface, fwWroteAA, ctx, call, sret, seen >>
    \* exit: mutex_unlock(&sabi_mutex); return retval
    \/ /\ Step(p, "L209", "returned", "mutex_unlock", 0)
       /\ mutex_unlock(p)
       /\ UNCHANGED << resVars, portVars, iface, fwWroteAA, ctx, call, rv, sret, seen >>

\* entry of sabi_get_command(command, &sretval): int retval = 0
enter_get(p, site, command) ==
    /\ pc' = [pc EXCEPT ![p] = "L129"]
    /\ ctx' = [ctx EXCEPT ![p] = site]
    /\ call' = [call EXCEPT ![p] = [fn |-> "get", command |-> command, data |-> 0]]
    /\ rv' = [rv EXCEPT ![p] = 0]
    /\ seen' = [seen EXCEPT ![p] = NoSeen]
    /\ steps' = [steps EXCEPT ![p] = << >>]

\* entry of sabi_set_command(command, data): int retval = 0
enter_set(p, site, command, data) ==
    /\ pc' = [pc EXCEPT ![p] = "L178"]
    /\ ctx' = [ctx EXCEPT ![p] = site]
    /\ call' = [call EXCEPT ![p] = [fn |-> "set", command |-> command, data |-> data]]
    /\ rv' = [rv EXCEPT ![p] = 0]
    /\ seen' = [seen EXCEPT ![p] = NoSeen]
    /\ steps' = [steps EXCEPT ![p] = << >>]

(***************************************************************************)
(* A harness of NumCallers threads calling the engine concurrently, with   *)
(* both windows mapped                                                      *)
(***************************************************************************)
HarnessGets == {SABI_GET_BACKLIGHT}
HarnessSets == {SABI_SET_BRIGHTNESS}
HarnessData == {1, RETVAL_FAIL}

EngineWindow == testStr \o HeaderBytes(TheHeader)

InitIface == { [mainfunc |-> 0, subfunc |-> 0, complete |-> c, retval |-> Zeros(RETVAL_LEN)] :
               c \in {0, COMPLETE_OK} }

InitEngine ==
    /\ mem = EngineWindow
    /\ f0000_segment = "mapped"
    /\ sabi = Len(testStr)
    /\ sabi_iface = "mapped"
    /\ iface \in InitIface
    /\ sdev = "NULL"
    /\ backlight_device = "NULL"
    /\ brightness = 0
    /\ sabi_mutex = Free
    /\ lastOut = -1
    /\ fwPending = FALSE
    /\ fwWroteAA = FALSE
    /\ fwAnswered = FALSE
    /\ pc = [p \in Callers |-> "idle"]
    /\ ctx = [p \in Callers |-> "harness"]
    /\ call = [p \in Callers |-> NoCall]
    /\ rv = [p \in Callers |-> 0]
    /\ sret = [p \in Callers |-> Garbage]
    /\ seen = [p \in Callers |-> NoSeen]
    /\ steps = [p \in Callers |-> << >>]
    /\ loca = 0
    /\ pStr = 0
    /\ initRet = 0
    /\ reslog = << >>
    /\ ub = 0
    /\ fwVals = {1, RETVAL_FAIL}
    /\ hw = NoHw
    /\ ifaceP = 0

harness_get(p) ==
    /\ pc[p] = "idle"
    /\ \E command \in HarnessGets : enter_get(p, "harness", command)
    /\ sret' = [sret EXCEPT ![p] = Garbage]
    /\ UNCHANGED << resVars, portVars, sabi_mutex, iface, fwWroteAA >>

harness_set(p) ==
    /\ pc[p] = "idle"
    /\ \E command \in HarnessSets, data \in HarnessData :
          enter_set(p, "harness", command, data)
    /\ sret' = [sret EXCEPT ![p] = Garbage]
    /\ UNCHANGED << resVars, portVars, sabi_mutex, iface, fwWroteAA >>

harness_return(p) ==
    /\ pc[p] = "returned"
    /\ ctx[p] = "harness"
    /\ pc' = [pc EXCEPT ![p] = "idle"]
    /\ call' = [call EXCEPT ![p] = NoCall]
    /\ rv' = [rv EXCEPT ![p] = 0]
    /\ sret' = [sret EXCEPT ![p] = Garbage]
    /\ seen' = [seen EXCEPT ![p] = NoSeen]
    /\ steps' = [steps EXCEPT ![p] = << >>]
    /\ UNCHANGED << resVars, portVars, sabi_mutex, iface, fwWroteAA, ctx >>

NextEngine ==
    \/ \E p \in Callers : harness_get(p)
    \/ \E p \in Callers : harness_set(p)
    \/ \E p \in Callers : sabi_get_command(p)
    \/ \E p \in Callers : sabi_set_command(p)
    \/ \E p \in Callers : harness_return(p)
    \/ Firmware

SpecEngine == InitEngine /\ [][NextEngine]_vars


(***************************************************************************)
(* samsung_init: the signature scan of lines 299-312                        *)
(***************************************************************************)
\* the loop bound 0xffff is the size of the mapped window
WindowSize == Len(mem)

signature_scan ==
    \/ /\ pc[Main] = "L300"
       /\ pStr' = 0
       /\ loca' = 0
       /\ pc' = [pc EXCEPT ![Main] = "L302"]
       /\ UNCHANGED << mem, f0000_segment, sabi, sabi_iface, sdev, backlight_device,
                       brightness, initRet, reslog, ub, fwVals, hw, ifaceP, engVars >>
    \/ /\ pc[Main] = "L302"
       /\ loca < WindowSize
       /\ readb(loca) = testStr[pStr + 1]
       /\ pStr = 5
       /\ pc' = [pc EXCEPT ![Main] = "L313"]
       /\ UNCHANGED << resVars, engVars >>
    \/ /\ pc[Main] = "L302"
       /\ loca < WindowSize
       /\ readb(loca) = testStr[pStr + 1]
       /\ pStr # 5
       /\ pStr' = pStr + 1
       /\ loca' = loca + 1
       /\ UNCHANGED << pc, mem, f0000_segment, sabi, sabi_iface, sdev, backlight_device,
                       brightness, initRet, reslog, ub, fwVals, hw, ifaceP, engVars >>
    \/ /\ pc[Main] = "L302"
       /\ loca < WindowSize
       /\ readb(loca) # testStr[pStr + 1]
       /\ pStr' = 0
       /\ loca' = loca + 1
       /\ UNCHANGED << pc, mem, f0000_segment, sabi, sabi_iface, sdev, backlight_device,
                       brightness, initRet, reslog, ub, fwVals, hw, ifaceP, engVars >>
    \/ /\ pc[Main] = "L302"
       /\ loca >= WindowSize
       /\ pc' = [pc EXCEPT ![Main] = "L313"]
       /\ UNCHANGED << resVars, engVars >>


ScanNext == signature_scan

(***************************************************************************)
(* The scan on its own, over every buffer of ScanLen bytes of the          *)
(* signature's alphabet                                                     *)
(***************************************************************************)
ScanAlphabet == { testStr[i] : i \in 1 .. Len(testStr) }
ScanBuffers == [1 .. ScanLen -> ScanAlphabet]

InitScan ==
    /\ mem \in ScanBuffers
    /\ f0000_segment = "mapped"
    /\ sabi = -1
    /\ sabi_iface = "NULL"
    /\ iface = [mainfunc |-> 0, subfunc |-> 0, complete |-> 0, retval |-> Zeros(RETVAL_LEN)]
    /\ sdev = "NULL"
    /\ backlight_device = "NULL"
    /\ brightness = 0
    /\ sabi_mutex = Free
    /\ lastOut = -1
    /\ fwPending = FALSE
    /\ fwWroteAA = FALSE
    /\ fwAnswered = FALSE
    /\ pc = [p \in {Main} |-> "L300"]
    /\ ctx = [p \in {Main} |-> "none"]
    /\ call = [p \in {Main} |-> NoCall]
    /\ rv = [p \in {Main} |-> 0]
    /\ sret = [p \in {Main} |-> Garbage]
    /\ seen = [p \in {Main} |-> NoSeen]
    /\ steps = [p \in {Main} |-> << >>]
    /\ loca = 0
    /\ pStr = 0
    /\ initRet = 0
    /\ reslog = << >>
    /\ ub = 0
    /\ fwVals = {}
    /\ hw = NoHw
    /\ ifaceP = 0

SpecScan == InitScan /\ [][ScanNext]_vars


(***************************************************************************)
(* samsung_init and samsung_exit                                            *)
(***************************************************************************)
R(op, obj, arg) == [op |-> op, obj |-> obj, arg |-> arg]

\* iounmap(addr): a mapped window becomes unmapped
iounmap(window) == IF window = "mapped" THEN "unmapped" ELSE window

\* the labels of the error path of samsung_init
exit_label == "L392"
error_no_backlight == "L395"
error_no_platform == "L398"
error_no_signature_return == "L402"
error_no_signature == "L401"

\* the diagnostic commands of lines 347-373, by call site
DiagSites == <<"L347", "L356", "L360", "L364", "L368", "L371">>
DiagCommand == [L347 |-> SABI_GET_MODEL, L356 |-> SABI_GET_BACKLIGHT,
                L360 |-> SABI_GET_WIRELESS_BUTTON, L364 |-> SABI_GET_BRIGHTNESS,
                L368 |-> SABI_GET_ETIQUETTE_MODE, L371 |-> SABI_GET_CPU_TEMP]
\* a diagnostic command that failed is not reported further: the next one follows
AfterDiagAbort == [site \in {"L347", "L356", "L360", "L364", "L368", "L371"} |->
                      error_no_platform]
AfterDiag == [L347 |-> "L356", L356 |-> "L360", L360 |-> "L364", L364 |-> "L368",
              L368 |-> "L371", L371 |-> "L376"]
DiagSiteSet == { DiagSites[i] : i \in 1 .. Len(DiagSites) }

\* the value read_brightness returns (lines 216-224), as a u8
read_brightness_no_decrement(retval, raw0) ==
    (IF retval = 0 THEN raw0 ELSE 0) % 256
read_brightness_result(retval, raw0) ==
    LET user_brightness == IF retval = 0 THEN raw0 ELSE 0
    IN  (IF user_brightness # 0 THEN user_brightness - 1 ELSE user_brightness) % 256

\* lines 313-335: the end of the scan decides whether there is a header; the
\* header starts at the byte after the signature and its fields are printed
locate_header ==
    \* if (loca == 0xffff) goto error_no_signature
    \/ /\ pc[Main] = "L313"
       /\ loca = WindowSize
       /\ pc' = [pc EXCEPT ![Main] = error_no_signature]
       /\ UNCHANGED << resVars, engVars >>
    \* loca += 1; sabi = loca + memcheck (never NULL, the window being mapped);
    \* the header is printed
    \/ /\ pc[Main] = "L313"
       /\ loca # WindowSize
       /\ loca' = loca + 1
       /\ sabi' = loca + 1
       /\ pc' = [pc EXCEPT ![Main] = "L338"]
       /\ UNCHANGED << mem, f0000_segment, sabi_iface, sdev, backlight_device,
                       brightness, initRet, reslog, pStr, ub, fwVals, hw, ifaceP, engVars >>

\* lines 338-339, in unsigned int arithmetic:
\* ifaceP = (readw(&sabi->dataSegment) & 0x0ffff) << 4;
\* ifaceP += readw(&sabi->dataOffset) & 0x0ffff;
ifaceP_u16(segment, offset) ==
    ((((segment % WORD) * 16) % WORD) + (offset % WORD)) % WORD
ifaceP_of(segment, offset) ==
    LET sum == ((segment % WORD) * 16) + (offset % WORD)
        \* the 32 bits of the unsigned int, as its high and low halves
        hi == (sum \div WORD) % WORD
        lo == sum % WORD
    IN  (hi * WORD) + lo

compute_ifaceP ==
    /\ pc[Main] = "L338"
    /\ ifaceP' = ifaceP_of(hdr_dataSegment, hdr_dataOffset)
    /\ pc' = [pc EXCEPT ![Main] = "L340"]
    /\ UNCHANGED << mem, f0000_segment, sabi, sabi_iface, sdev, backlight_device,
                    brightness, initRet, reslog, loca, pStr, ub, fwVals, hw, engVars >>

samsung_init ==
    \* mutex_init; the DMI check fails and force is not set
    \/ /\ pc[Main] = "L288"
       /\ pc' = [pc EXCEPT ![Main] = "init_returned"]
       /\ initRet' = -ENODEV
       /\ UNCHANGED << mem, f0000_segment, sabi, sabi_iface, sdev, backlight_device,
                       brightness, reslog, loca, pStr, ub, fwVals, hw, ifaceP, engVars >>
    \* mutex_init; the DMI check passes, or force is set
    \/ /\ pc[Main] = "L288"
       /\ pc' = [pc EXCEPT ![Main] = "L293"]
       /\ UNCHANGED << resVars, engVars >>
    \* ioremap(0xf0000, 0xffff) fails
    \/ /\ pc[Main] = "L293"
       /\ reslog' = Append(reslog, R("ioremap", "f0000_segment", "fail"))
       /\ pc' = [pc EXCEPT ![Main] = "init_returned"]
       /\ initRet' = -EINVAL
       /\ UNCHANGED << mem, f0000_segment, sabi, sabi_iface, sdev, backlight_device,
                       brightness, loca, pStr, ub, fwVals, hw, ifaceP, engVars >>
    \* ioremap(0xf0000, 0xffff) succeeds
    \/ /\ pc[Main] = "L293"
       /\ f0000_segment' = "mapped"
       /\ reslog' = Append(reslog, R("ioremap", "f0000_segment", "ok"))
       /\ pc' = [pc EXCEPT ![Main] = "L300"]
       /\ UNCHANGED << mem, sabi, sabi_iface, sdev, backlight_device,
                       brightness, initRet, loca, pStr, ub, fwVals, hw, ifaceP, engVars >>
    \* ioremap(ifaceP, 16) fails: goto exit
    \/ /\ pc[Main] = "L340"
       /\ reslog' = Append(reslog, R("ioremap", "sabi_iface", "fail"))
       /\ pc' = [pc EXCEPT ![Main] = exit_label]
       /\ UNCHANGED << mem, f0000_segment, sabi, sabi_iface, sdev, backlight_device,
                       brightness, initRet, loca, pStr, ub, fwVals, hw, ifaceP, engVars >>
    \* ioremap(ifaceP, 16) succeeds
    \/ /\ pc[Main] = "L340"
       /\ sabi_iface' = "mapped"
       /\ reslog' = Append(reslog, R("ioremap", "sabi_iface", "ok"))
       /\ pc' = [pc EXCEPT ![Main] = "L347"]
       /\ UNCHANGED << mem, f0000_segment, sabi, sdev, backlight_device,
                       brightness, initRet, loca, pStr, ub, fwVals, hw, ifaceP, engVars >>
    \* retval = sabi_get_command(SABI_GET_..., &sretval)
    \/ /\ pc[Main] \in DiagSiteSet
       /\ enter_get(Main, pc[Main], DiagCommand[pc[Main]])
       /\ UNCHANGED << resVars, portVars, sabi_mutex, iface, fwWroteAA, sret >>
    \* if (!retval) printk(...)
    \/ /\ pc[Main] = "returned"
       /\ ctx[Main] \in DiagSiteSet
       /\ pc' = [pc EXCEPT ![Main] = AfterDiag[ctx[Main]]]
       /\ UNCHANGED << resVars, engVars >>
    \* platform_device_register_simple fails: goto error_no_platform
    \/ /\ pc[Main] = "L376"
       /\ sdev' = "ERR"
       /\ reslog' = Append(reslog, R("register", "sdev", "fail"))
       /\ pc' = [pc EXCEPT ![Main] = error_no_platform]
       /\ UNCHANGED << mem, f0000_segment, sabi, sabi_iface, backlight_device,
                       brightness, initRet, loca, pStr, ub, fwVals, hw, ifaceP, engVars >>
    \* platform_device_register_simple succeeds
    \/ /\ pc[Main] = "L376"
       /\ sdev' = "registered"
       /\ reslog' = Append(reslog, R("register", "sdev", "ok"))
       /\ pc' = [pc EXCEPT ![Main] = "L381"]
       /\ UNCHANGED << mem, f0000_segment, sabi, sabi_iface, backlight_device,
                       brightness, initRet, loca, pStr, ub, fwVals, hw, ifaceP, engVars >>
    \* backlight_device_register fails: goto error_no_backlight
    \/ /\ pc[Main] = "L381"
       /\ backlight_device' = "ERR"
       /\ reslog' = Append(reslog, R("register", "backlight_device", "fail"))
       /\ pc' = [pc EXCEPT ![Main] = error_no_backlight]
       /\ UNCHANGED << mem, f0000_segment, sabi, sabi_iface, sdev,
                       brightness, initRet, loca, pStr, ub, fwVals, hw, ifaceP, engVars >>
    \* backlight_device_register succeeds; props.max_brightness = MAX_BRIGHT
    \/ /\ pc[Main] = "L381"
       /\ backlight_device' = "registered"
       /\ reslog' = Append(reslog, R("register", "backlight_device", "ok"))
       /\ pc' = [pc EXCEPT ![Main] = "L387"]
       /\ UNCHANGED << mem, f0000_segment, sabi, sabi_iface, sdev,
                       brightness, initRet, loca, pStr, ub, fwVals, hw, ifaceP, engVars >>
    \* props.brightness = read_brightness(): the call
    \/ /\ pc[Main] = "L387"
       /\ pc' = [pc EXCEPT ![Main] = "L219"]
       /\ UNCHANGED << resVars, engVars >>
    \* props.brightness = read_brightness(): the assignment
    \/ /\ pc[Main] = "L224"
       /\ brightness' = ub
       /\ pc' = [pc EXCEPT ![Main] = "L389"]
       /\ UNCHANGED << mem, f0000_segment, sabi, sabi_iface, sdev, backlight_device,
                       initRet, reslog, loca, pStr, ub, fwVals, hw, ifaceP, engVars >>
    \* props.power = FB_BLANK_UNBLANK; backlight_update_status(backlight_device)
    \/ /\ pc[Main] = "L389"
       /\ pc' = [pc EXCEPT ![Main] = "L239"]
       /\ ctx' = [ctx EXCEPT ![Main] = "L389"]
       /\ UNCHANGED << resVars, portVars, sabi_mutex, iface, fwWroteAA, call, rv, sret,
                       seen, steps >>
    \* update_status has returned 0
    \/ /\ pc[Main] = "returned"
       /\ ctx[Main] = "L389"
       /\ pc' = [pc EXCEPT ![Main] = "L392"]
       /\ UNCHANGED << resVars, engVars >>
    \* exit: return 0
    \/ /\ pc[Main] = "L392"
       /\ pc' = [pc EXCEPT ![Main] = "init_returned"]
       /\ initRet' = 0
       /\ UNCHANGED << mem, f0000_segment, sabi, sabi_iface, sdev, backlight_device,
                       brightness, reslog, loca, pStr, ub, fwVals, hw, ifaceP, engVars >>
    \* error_no_backlight: platform_device_unregister(sdev)
    \/ /\ pc[Main] = "L395"
       /\ reslog' = Append(reslog, R("unregister", "sdev", sdev))
       /\ sdev' = "unregistered"
       /\ pc' = [pc EXCEPT ![Main] = "L398"]
       /\ UNCHANGED << mem, f0000_segment, sabi, sabi_iface, backlight_device,
                       brightness, initRet, loca, pStr, ub, fwVals, hw, ifaceP, engVars >>
    \* error_no_platform: iounmap(sabi_iface)
    \/ /\ pc[Main] = "L398"
       /\ reslog' = Append(reslog, R("iounmap", "sabi_iface", sabi_iface))
       /\ sabi_iface' = iounmap(sabi_iface)
       /\ pc' = [pc EXCEPT ![Main] = "L401"]
       /\ UNCHANGED << mem, f0000_segment, sabi, sdev, backlight_device,
                       brightness, initRet, loca, pStr, ub, fwVals, hw, ifaceP, engVars >>
    \* error_no_signature: iounmap(f0000_segment)
    \/ /\ pc[Main] = "L401"
       /\ reslog' = Append(reslog, R("iounmap", "f0000_segment", f0000_segment))
       /\ f0000_segment' = iounmap(f0000_segment)
       /\ pc' = [pc EXCEPT ![Main] = "L402"]
       /\ UNCHANGED << mem, sabi, sabi_iface, sdev, backlight_device,
                       brightness, initRet, loca, pStr, ub, fwVals, hw, ifaceP, engVars >>
    \* return -EINVAL
    \/ /\ pc[Main] = "L402"
       /\ pc' = [pc EXCEPT ![Main] = "init_returned"]
       /\ initRet' = -EINVAL
       /\ UNCHANGED << mem, f0000_segment, sabi, sabi_iface, sdev, backlight_device,
                       brightness, reslog, loca, pStr, ub, fwVals, hw, ifaceP, engVars >>

\* read_brightness(), called by samsung_init
read_brightness(p) ==
    \* retval = sabi_get_command(SABI_GET_BACKLIGHT, &sretval)
    \/ /\ pc[p] = "L219"
       /\ enter_get(p, "L219", SABI_GET_BACKLIGHT)
       /\ sret' = [sret EXCEPT ![p] = Garbage]
       /\ UNCHANGED << resVars, portVars, sabi_mutex, iface, fwWroteAA >>
    \* lines 220-224: return user_brightness
    \/ /\ pc[p] = "returned"
       /\ ctx[p] = "L219"
       /\ ub' = read_brightness_result(rv[p], sret[p][1])
       /\ pc' = [pc EXCEPT ![p] = "L224"]
       /\ UNCHANGED << mem, f0000_segment, sabi, sabi_iface, sdev, backlight_device,
                       brightness, initRet, reslog, loca, pStr, fwVals, hw, ifaceP, engVars >>

\* the u8 data set_brightness(u8 user_brightness) passes: user_brightness + 1
set_brightness_data_raw(user_brightness) == user_brightness % 256
set_brightness_data(user_brightness) == ((user_brightness % 256) + 1) % 256

\* update_status(bd) -> set_brightness(bd->props.brightness)
\*                   -> sabi_set_command(SABI_SET_BRIGHTNESS, user_brightness + 1)
update_status(p) ==
    /\ pc[p] = "L239"
    /\ enter_set(p, ctx[p], SABI_SET_BRIGHTNESS, set_brightness_data(brightness))
    /\ UNCHANGED << resVars, portVars, sabi_mutex, iface, fwWroteAA, sret >>

\* the backlight core, on a write of a level by a user of the registered
\* device: it stores props.brightness and calls the update_status operation
CoreLevels == {0, MAX_BRIGHT}
backlight_core(p) ==
    \/ /\ pc[p] = "idle"
       /\ backlight_device = "registered"
       /\ \E level \in CoreLevels : brightness' = level
       /\ pc' = [pc EXCEPT ![p] = "L239"]
       /\ UNCHANGED << mem, f0000_segment, sabi, sabi_iface, sdev, backlight_device,
                       initRet, reslog, loca, pStr, ub, fwVals, hw, ifaceP, engVars >>
    \* update_status has returned 0 to the core
    \/ /\ pc[p] = "returned"
       /\ ctx[p] = "core"
       /\ pc' = [pc EXCEPT ![p] = "idle"]
       /\ call' = [call EXCEPT ![p] = NoCall]
       /\ rv' = [rv EXCEPT ![p] = 0]
       /\ seen' = [seen EXCEPT ![p] = NoSeen]
       /\ steps' = [steps EXCEPT ![p] = << >>]
       /\ UNCHANGED << resVars, portVars, sabi_mutex, iface, fwWroteAA, ctx, sret >>

\* backlight_device_unregister takes the lock under which the backlight core
\* calls update_status: it returns once no operation of the device is running
backlight_ops_unchecked == TRUE
backlight_ops_idle == pc[Updater] = "idle"

\* module unload after a samsung_init that returned 0
samsung_exit ==
    \* backlight_device_unregister(backlight_device): returns once no
    \* operation of the device is running
    \/ /\ pc[Main] = "init_returned"
       /\ initRet = 0
       /\ backlight_ops_idle
       /\ reslog' = Append(reslog, R("unregister", "backlight_device", backlight_device))
       /\ backlight_device' = IF backlight_device = "registered"
                              THEN "unregistered" ELSE backlight_device
       /\ pc' = [pc EXCEPT ![Main] = "L408"]
       /\ UNCHANGED << mem, f0000_segment, sabi, sabi_iface, sdev,
                       brightness, initRet, loca, pStr, ub, fwVals, hw, ifaceP, engVars >>
    \* iounmap(sabi_iface)
    \/ /\ pc[Main] = "L408"
       /\ reslog' = Append(reslog, R("iounmap", "sabi_iface", sabi_iface))
       /\ sabi_iface' = iounmap(sabi_iface)
       /\ pc' = [pc EXCEPT ![Main] = "L409"]
       /\ UNCHANGED << mem, f0000_segment, sabi, sdev, backlight_device,
                       brightness, initRet, loca, pStr, ub, fwVals, hw, ifaceP, engVars >>
    \* iounmap(f0000_segment)
    \/ /\ pc[Main] = "L409"
       /\ reslog' = Append(reslog, R("iounmap", "f0000_segment", f0000_segment))
       /\ f0000_segment' = iounmap(f0000_segment)
       /\ pc' = [pc EXCEPT ![Main] = "L410"]
       /\ UNCHANGED << mem, sabi, sabi_iface, sdev, backlight_device,
                       brightness, initRet, loca, pStr, ub, fwVals, hw, ifaceP, engVars >>
    \* platform_device_unregister(sdev)
    \/ /\ pc[Main] = "L410"
       /\ reslog' = Append(reslog, R("unregister", "sdev", sdev))
       /\ sdev' = IF sdev = "registered" THEN "unregistered" ELSE sdev
       /\ pc' = [pc EXCEPT ![Main] = "exited"]
       /\ UNCHANGED << mem, f0000_segment, sabi, sabi_iface, backlight_device,
                       brightness, initRet, loca, pStr, ub, fwVals, hw, ifaceP, engVars >>

(***************************************************************************)
(* The module from load to unload                                           *)
(***************************************************************************)
\* windows holding the signature and the header behind 0 .. MaxPad other bytes
SignedWindows == { Zeros(k) \o testStr \o HeaderBytes(TheHeader) : k \in 0 .. MaxPad }
\* a window without the signature, and one whose signature follows an 'S'
UnsignedWindow == SubSeq(testStr, 1, 5) \o <<0>> \o HeaderBytes(TheHeader)
OverlapWindow == <<testStr[1]>> \o testStr \o HeaderBytes(TheHeader)
Windows == SignedWindows \cup {UnsignedWindow, OverlapWindow}

AllThreads == {Main, Updater}

Init ==
    /\ mem \in Windows
    /\ f0000_segment = "NULL"
    /\ sabi = -1
    /\ sabi_iface = "NULL"
    /\ iface \in InitIface
    /\ sdev = "NULL"
    /\ backlight_device = "NULL"
    /\ brightness = 0
    /\ sabi_mutex = Free
    /\ lastOut = -1
    /\ fwPending = FALSE
    /\ fwWroteAA = FALSE
    /\ fwAnswered = FALSE
    /\ pc = [p \in AllThreads |-> IF p = Main THEN "L288" ELSE "idle"]
    /\ ctx = [p \in AllThreads |-> IF p = Main THEN "none" ELSE "core"]
    /\ call = [p \in AllThreads |-> NoCall]
    /\ rv = [p \in AllThreads |-> 0]
    /\ sret = [p \in AllThreads |-> Garbage]
    /\ seen = [p \in AllThreads |-> NoSeen]
    /\ steps = [p \in AllThreads |-> << >>]
    /\ loca = 0
    /\ pStr = 0
    /\ initRet = 0
    /\ reslog = << >>
    /\ ub = 0
    /\ fwVals = {1, RETVAL_FAIL}
    /\ hw = NoHw
    /\ ifaceP = 0

Next ==
    \/ samsung_init
    \/ signature_scan
    \/ locate_header
    \/ compute_ifaceP
    \/ read_brightness(Main)
    \/ \E p \in AllThreads : update_status(p)
    \/ backlight_core(Updater)
    \/ \E p \in AllThreads : sabi_get_command(p)
    \/ \E p \in AllThreads : sabi_set_command(p)
    \/ Firmware
    \/ samsung_exit

Spec == Init /\ [][Next]_vars


(***************************************************************************)
(* The scan and the location of the header, over windows that hold the     *)
(* signature at any distance from their end                                *)
(***************************************************************************)
HeaderWindows ==
    { Zeros(lead) \o testStr \o Zeros(tail) :
        lead \in 0 .. MaxPad, tail \in 0 .. HEADER_SIZE } \cup {UnsignedWindow}

InitHeader ==
    /\ mem \in HeaderWindows
    /\ f0000_segment = "mapped"
    /\ sabi = -1
    /\ sabi_iface = "NULL"
    /\ iface = [mainfunc |-> 0, subfunc |-> 0, complete |-> 0, retval |-> Zeros(RETVAL_LEN)]
    /\ sdev = "NULL"
    /\ backlight_device = "NULL"
    /\ brightness = 0
    /\ sabi_mutex = Free
    /\ lastOut = -1
    /\ fwPending = FALSE
    /\ fwWroteAA = FALSE
    /\ fwAnswered = FALSE
    /\ pc = [p \in {Main} |-> "L300"]
    /\ ctx = [p \in {Main} |-> "none"]
    /\ call = [p \in {Main} |-> NoCall]
    /\ rv = [p \in {Main} |-> 0]
    /\ sret = [p \in {Main} |-> Garbage]
    /\ seen = [p \in {Main} |-> NoSeen]
    /\ steps = [p \in {Main} |-> << >>]
    /\ loca = 0
    /\ pStr = 0
    /\ initRet = 0
    /\ reslog = << R("ioremap", "f0000_segment", "ok") >>
    /\ ub = 0
    /\ fwVals = {}
    /\ hw = NoHw
    /\ ifaceP = 0

NextHeader ==
    \/ signature_scan
    \/ locate_header

SpecHeader == InitHeader /\ [][NextHeader]_vars

(***************************************************************************)
(* The interface address on its own: lines 338-339 applied to headers with *)
(* the corner values of the two 16-bit fields                              *)
(***************************************************************************)
AddrWords == {0, 32, 4096} \cup { 2^k : k \in 0 .. 15 } \cup { WORD - (2^k) : k \in 0 .. 15 }
AddrWindow(segment, offset) ==
    testStr \o HeaderBytes([TheHeader EXCEPT !.dataSegment = segment,
                                             !.dataOffset = offset])

InitAddr ==
    /\ \E segment \in AddrWords, offset \in AddrWords : mem = AddrWindow(segment, offset)
    /\ f0000_segment = "mapped"
    /\ sabi = Len(testStr)
    /\ sabi_iface = "NULL"
    /\ iface = [mainfunc |-> 0, subfunc |-> 0, complete |-> 0, retval |-> Zeros(RETVAL_LEN)]
    /\ sdev = "NULL"
    /\ backlight_device = "NULL"
    /\ brightness = 0
    /\ sabi_mutex = Free
    /\ lastOut = -1
    /\ fwPending = FALSE
    /\ fwWroteAA = FALSE
    /\ fwAnswered = FALSE
    /\ pc = [p \in {Main} |-> "L338"]
    /\ ctx = [p \in {Main} |-> "none"]
    /\ call = [p \in {Main} |-> NoCall]
    /\ rv = [p \in {Main} |-> 0]
    /\ sret = [p \in {Main} |-> Garbage]
    /\ seen = [p \in {Main} |-> NoSeen]
    /\ steps = [p \in {Main} |-> << >>]
    /\ loca = Len(testStr)
    /\ pStr = 5
    /\ initRet = 0
    /\ reslog = << R("ioremap", "f0000_segment", "ok") >>
    /\ ub = 0
    /\ fwVals = {}
    /\ hw = NoHw
    /\ ifaceP = 0

NextAddr == compute_ifaceP

SpecAddr == InitAddr /\ [][NextAddr]_vars

(***************************************************************************)
(* The brightness adapter on its own: one thread calling read_brightness   *)
(* and set_brightness, both windows mapped, the firmware answering any raw *)
(* level                                                                    *)
(***************************************************************************)
Adapter == <<"adapter", 0>>

InitAdapter ==
    /\ mem = EngineWindow
    /\ f0000_segment = "mapped"
    /\ sabi = Len(testStr)
    /\ sabi_iface = "mapped"
    /\ iface \in InitIface
    /\ sdev = "registered"
    /\ backlight_device = "registered"
    /\ brightness = 0
    /\ sabi_mutex = Free
    /\ lastOut = -1
    /\ fwPending = FALSE
    /\ fwWroteAA = FALSE
    /\ fwAnswered = FALSE
    /\ pc = [p \in {Adapter} |-> "idle"]
    /\ ctx = [p \in {Adapter} |-> "harness"]
    /\ call = [p \in {Adapter} |-> NoCall]
    /\ rv = [p \in {Adapter} |-> 0]
    /\ sret = [p \in {Adapter} |-> Garbage]
    /\ seen = [p \in {Adapter} |-> NoSeen]
    /\ steps = [p \in {Adapter} |-> << >>]
    /\ loca = 0
    /\ pStr = 0
    /\ initRet = 0
    /\ reslog = << >>
    /\ ub = 0
    /\ fwVals = RawVals
    /\ hw = NoHw
    /\ ifaceP = 0

\* the harness calls read_brightness()
adapter_read(p) ==
    /\ pc[p] = "idle"
    /\ pc' = [pc EXCEPT ![p] = "L219"]
    /\ UNCHANGED << resVars, engVars >>

\* read_brightness() has returned to the harness
adapter_read_done(p) ==
    /\ pc[p] = "L224"
    /\ pc' = [pc EXCEPT ![p] = "idle"]
    /\ call' = [call EXCEPT ![p] = NoCall]
    /\ rv' = [rv EXCEPT ![p] = 0]
    /\ sret' = [sret EXCEPT ![p] = Garbage]
    /\ seen' = [seen EXCEPT ![p] = NoSeen]
    /\ steps' = [steps EXCEPT ![p] = << >>]
    /\ UNCHANGED << resVars, portVars, sabi_mutex, iface, fwWroteAA, ctx >>

\* the harness stores a level and calls update_status, as the backlight core does
adapter_set(p) ==
    /\ pc[p] = "idle"
    /\ \E level \in 0 .. MAX_BRIGHT : brightness' = level
    /\ pc' = [pc EXCEPT ![p] = "L239"]
    /\ ctx' = [ctx EXCEPT ![p] = "harness"]
    /\ UNCHANGED << mem, f0000_segment, sabi, sabi_iface, sdev, backlight_device,
                    initRet, reslog, loca, pStr, ub, fwVals, hw, ifaceP, portVars, sabi_mutex,
                    iface, fwWroteAA, call, rv, sret, seen, steps >>

NextAdapter ==
    \/ adapter_read(Adapter)
    \/ read_brightness(Adapter)
    \/ adapter_read_done(Adapter)
    \/ adapter_set(Adapter)
    \/ update_status(Adapter)
    \/ sabi_get_command(Adapter)
    \/ sabi_set_command(Adapter)
    \/ harness_return(Adapter)
    \/ Firmware

SpecAdapter == InitAdapter /\ [][NextAdapter]_vars


(***************************************************************************)
(* set_brightness followed by read_brightness, against a firmware that     *)
(* services every command it is triggered for and keeps what the set       *)
(* commands write: the brightness level under SABI_GET_BRIGHTNESS /        *)
(* SABI_SET_BRIGHTNESS and the backlight switch under SABI_GET_BACKLIGHT / *)
(* SABI_SET_BACKLIGHT, as lines 38-51 describe the commands                *)
(***************************************************************************)
HwStates == [brightness : 1 .. MAX_BRIGHT + 1, backlight : {0, 1}]

StoringFirmware ==
    /\ fwPending
    /\ hw' = CASE iface.subfunc = SABI_SET_BRIGHTNESS ->
                      [hw EXCEPT !.brightness = iface.retval[1]]
               [] iface.subfunc = SABI_SET_BACKLIGHT ->
                      [hw EXCEPT !.backlight = iface.retval[1]]
               [] OTHER -> hw
    /\ iface' = [iface EXCEPT
                    !.complete = COMPLETE_OK,
                    !.retval[1] = CASE iface.subfunc = SABI_GET_BRIGHTNESS -> hw.brightness
                                    [] iface.subfunc = SABI_GET_BACKLIGHT -> hw.backlight
                                    [] OTHER -> 0]
    /\ fwWroteAA' = TRUE
    /\ fwPending' = FALSE
    /\ fwAnswered' = TRUE
    /\ UNCHANGED << mem, f0000_segment, sabi, sabi_iface, sdev, backlight_device,
                    brightness, initRet, reslog, loca, pStr, ub, fwVals, ifaceP,
                    lastOut, sabi_mutex, pc, ctx, call, rv, sret, seen, steps >>

InitRoundTrip ==
    /\ mem = EngineWindow
    /\ f0000_segment = "mapped"
    /\ sabi = Len(testStr)
    /\ sabi_iface = "mapped"
    /\ iface \in InitIface
    /\ sdev = "registered"
    /\ backlight_device = "registered"
    /\ brightness = 0
    /\ sabi_mutex = Free
    /\ lastOut = -1
    /\ fwPending = FALSE
    /\ fwWroteAA = FALSE
    /\ fwAnswered = FALSE
    /\ pc = [p \in {Adapter} |-> "idle"]
    /\ ctx = [p \in {Adapter} |-> "harness"]
    /\ call = [p \in {Adapter} |-> NoCall]
    /\ rv = [p \in {Adapter} |-> 0]
    /\ sret = [p \in {Adapter} |-> Garbage]
    /\ seen = [p \in {Adapter} |-> NoSeen]
    /\ steps = [p \in {Adapter} |-> << >>]
    /\ loca = 0
    /\ pStr = 0
    /\ initRet = 0
    /\ reslog = << >>
    /\ ub = 0
    /\ fwVals = {}
    /\ hw \in HwStates
    /\ ifaceP = 0

\* the harness stores a level and calls update_status -> set_brightness(level)
roundtrip_set(p) ==
    /\ pc[p] = "idle"
    /\ \E level \in 0 .. MAX_BRIGHT : brightness' = level
    /\ pc' = [pc EXCEPT ![p] = "L239"]
    /\ ctx' = [ctx EXCEPT ![p] = "roundtrip"]
    /\ UNCHANGED << mem, f0000_segment, sabi, sabi_iface, sdev, backlight_device,
                    initRet, reslog, loca, pStr, ub, fwVals, hw, ifaceP, portVars,
                    sabi_mutex, iface, fwWroteAA, call, rv, sret, seen, steps >>

\* set_brightness has returned: the harness calls read_brightness()
roundtrip_read(p) ==
    /\ pc[p] = "returned"
    /\ ctx[p] = "roundtrip"
    /\ pc' = [pc EXCEPT ![p] = "L219"]
    /\ UNCHANGED << resVars, engVars >>

NextRoundTrip ==
    \/ roundtrip_set(Adapter)
    \/ update_status(Adapter)
    \/ sabi_set_command(Adapter)
    \/ roundtrip_read(Adapter)
    \/ read_brightness(Adapter)
    \/ sabi_get_command(Adapter)
    \/ adapter_read_done(Adapter)
    \/ StoringFirmware

SpecRoundTrip == InitRoundTrip /\ [][NextRoundTrip]_vars

(***************************************************************************)
(* Properties of the command engine                                         *)
(***************************************************************************)
\* positions after the enable port write and up to the validation read
BetweenPcs == {"L135", "L136", "L137", "L138", "L141", "L144", "L147",
               "L184", "L185", "L186", "L187", "L188", "L191", "L194", "L197"}
\* positions whose step writes the port or reads or writes the interface
AccessPcs == {"L132", "L135", "L136", "L137", "L138", "L144", "L147", "L156", "L164",
              "L181", "L184", "L185", "L186", "L187", "L188", "L194", "L197", "L204"}
LockPcs == {"L129", "L178"}
Threads == DOMAIN pc

\* C1: the port writes and interface accesses of two calls never interleave:
\* whenever a thread writes the port or touches the interface, no other thread
\* is between its own enable port write and its own validation read.
C1_Serialized ==
    [][\A q \in Threads :
          (pc[q] \in AccessPcs /\ pc'[q] # pc[q])
             => \A p \in Threads \ {q} : pc[p] \notin BetweenPcs]_vars

\* two calls are in progress at once: one inside the protocol, one at the lock
C1_Witness ==
    \E p, q \in Threads : p # q /\ pc[p] \in BetweenPcs /\ pc[q] \in LockPcs

\* C2: as long as the firmware has never set complete to 0xaa, every call that
\* has returned returned -EINVAL and does not hold the mutex.
C2_FailsAndUnlocks ==
    ~fwWroteAA =>
        \A p \in Threads :
            pc[p] = "returned" => rv[p] = -EINVAL /\ p \notin sabi_mutex

\* a call failed although the firmware answered (with another completion byte)
C2_Witness ==
    /\ ~fwWroteAA
    /\ \E p \in Threads :
          /\ pc[p] = "returned"
          /\ rv[p] = -EINVAL
          /\ seen[p].complete \notin {0, COMPLETE_OK}
          /\ sabi_mutex = Free

\* C3: a call returns 0 exactly when the validation read found complete = 0xaa
\* and retval[0] # 0xff, and returns -EINVAL otherwise.
C3_SuccessIff ==
    \A p \in Threads :
        pc[p] = "returned" =>
            /\ rv[p] \in {0, -EINVAL}
            /\ rv[p] = 0 <=> (seen[p].complete = COMPLETE_OK /\ seen[p].retval0 # RETVAL_FAIL)

\* a call failed with complete = 0xaa because retval[0] was 0xff
C3_Witness ==
    \E p \in Threads :
        /\ pc[p] = "returned"
        /\ rv[p] = -EINVAL
        /\ seen[p].complete = COMPLETE_OK
        /\ seen[p].retval0 = RETVAL_FAIL

E(op, val) == [op |-> op, val |-> val]
\* the steps of one call, in order
ExpectedSteps(c) ==
    << E("mutex_lock", 0), E("outb", TheHeader.enMem),
       E("writew_mainfunc", MAINFUNC_MAGIC), E("writew_subfunc", c.command),
       E("writeb_complete", 0) >>
    \o (IF c.fn = "set" THEN << E("writeb_retval0", c.data) >> ELSE << >>)
    \o << E("outb", TheHeader.ifaceFunc), E("msleep", SLEEP_MS),
          E("outb", TheHeader.reMem), E("validate", 0), E("mutex_unlock", 0) >>
\* the steps the protocol lists: the copy of the result and the report of a
\* failure are left out
IsProtocolStep(e) == e.op \notin {"copy", "printk"}
IsPrefix(s, t) == Len(s) <= Len(t) /\ s = SubSeq(t, 1, Len(s))

\* C4: every call performs lock, enable, mainfunc, subfunc, clear, (payload,)
\* trigger, sleep, restore, validation, unlock in this order, each once.
C4_FixedOrder ==
    \A p \in Threads :
        call[p].fn # "none" =>
            /\ IsPrefix(SelectSeq(steps[p], IsProtocolStep), ExpectedSteps(call[p]))
            /\ pc[p] = "returned" =>
                  SelectSeq(steps[p], IsProtocolStep) = ExpectedSteps(call[p])

\* a set command that failed has returned
C4_Witness ==
    \E p \in Threads :
        /\ pc[p] = "returned"
        /\ call[p].fn = "set"
        /\ rv[p] = -EINVAL
        /\ \E i \in 1 .. Len(steps[p]) : steps[p][i].op = "printk"


(***************************************************************************)
(* Properties of the signature scan                                         *)
(***************************************************************************)
\* the signature occurs in buffer b at 0-based offset k
OccursAt(b, k) ==
    /\ k + Len(testStr) <= Len(b)
    /\ \A i \in 1 .. Len(testStr) : b[k + i] = testStr[i]
Occurs(b) == \E k \in 0 .. Len(b) : OccursAt(b, k)
FirstOccurrence(b) == CHOOSE k \in 0 .. Len(b) :
                         OccursAt(b, k) /\ \A j \in 0 .. k - 1 : ~OccursAt(b, j)
ScanDone == pc[Main] = "L313"
ScanFound == loca # WindowSize

\* C5: when the scan has ended, it has found the signature exactly if the
\* signature occurs in the buffer, and the offset it reports (loca + 1) is the
\* one right after the first occurrence.
C5_ScanCorrect ==
    ScanDone =>
        /\ ScanFound <=> Occurs(mem)
        /\ ScanFound => loca + 1 = FirstOccurrence(mem) + Len(testStr)


(***************************************************************************)
(* Properties of samsung_init and samsung_exit                              *)
(***************************************************************************)
Logged(r) == \E i \in 1 .. Len(reslog) : reslog[i] = r
Count(op, obj, args) ==
    Cardinality({ i \in 1 .. Len(reslog) :
                    reslog[i].op = op /\ reslog[i].obj = obj /\ reslog[i].arg \in args })
Reverse(s) == [i \in 1 .. Len(s) |-> s[Len(s) + 1 - i]]
ObjectsOf(s) == [i \in 1 .. Len(s) |-> s[i].obj]
IsAcquire(r) == r.op \in {"ioremap", "register"} /\ r.arg = "ok"
IsRelease(r) == r.op \in {"iounmap", "unregister"}
PointerStates == {"NULL", "mapped", "unmapped", "registered", "unregistered", "ERR"}
InitReturned == pc[Main] = "init_returned"
NoCommandIssued == lastOut = -1 /\ \A p \in Threads : steps[p] = << >>

\* C6: if mapping the interface window failed, samsung_init returns an error,
\* has issued no command and the module is not loaded.
C6_MapFailureFailsInit ==
    (InitReturned /\ Logged(R("ioremap", "sabi_iface", "fail")))
        => initRet # 0 /\ NoCommandIssued

\* C7: when samsung_init has returned without completing the setup, nothing it
\* acquired is still held, and the releases were made in the reverse order of
\* the acquisitions.
C7_FailedInitReleases ==
    (InitReturned /\ backlight_device # "registered")
        => /\ f0000_segment # "mapped"
           /\ sabi_iface # "mapped"
           /\ sdev # "registered"
           /\ ObjectsOf(SelectSeq(reslog, IsRelease))
                 = Reverse(ObjectsOf(SelectSeq(reslog, IsAcquire)))

\* C8: with no signature in the firmware window, the interface window is never
\* mapped nor tried, no command and no port write is issued, and samsung_init
\* returns an error with the firmware window released.
C8_NoSignature ==
    ~Occurs(mem) =>
        /\ Count("ioremap", "sabi_iface", {"ok", "fail"}) = 0
        /\ sabi_iface = "NULL"
        /\ NoCommandIssued
        /\ InitReturned =>
              /\ initRet \in {-EINVAL, -ENODEV}
              /\ f0000_segment # "mapped"
              /\ Count("iounmap", "f0000_segment", PointerStates)
                    = Count("ioremap", "f0000_segment", {"ok"})

\* samsung_init has scanned a window without signature and returned
C8_Witness ==
    /\ InitReturned
    /\ ~Occurs(mem)
    /\ pStr = 0
    /\ loca = WindowSize
    /\ f0000_segment = "unmapped"
    /\ initRet = -EINVAL

\* C9: after samsung_init returned 0 and samsung_exit ran, each window was
\* unmapped as many times as it was mapped (once, or never), the interface
\* window before the firmware window.
C9_ExitUnmapsOnce ==
    pc[Main] = "exited" =>
        /\ \A w \in {"sabi_iface", "f0000_segment"} :
              /\ Count("ioremap", w, {"ok"}) <= 1
              /\ Count("iounmap", w, PointerStates) = Count("ioremap", w, {"ok"})
        /\ \A i, j \in 1 .. Len(reslog) :
              (reslog[i].op = "iounmap" /\ reslog[i].obj = "sabi_iface" /\
               reslog[j].op = "iounmap" /\ reslog[j].obj = "f0000_segment") => i < j

(***************************************************************************)
(* Properties of the brightness adapter                                     *)
(***************************************************************************)
\* C10: read_brightness issues one SABI_GET_BACKLIGHT command and returns 0 if
\* it failed, 0 for a raw retval[0] of 0 and raw - 1 for a raw retval[0] of
\* 1 .. 8, hence a value of 0 .. 7 for every raw value of 0 .. 8.
C10_ReadBrightness ==
    \A p \in Threads :
        (pc[p] = "L224") =>
            LET raw == seen[p].retval0 IN
            /\ call[p] = [fn |-> "get", command |-> SABI_GET_BACKLIGHT, data |-> 0]
            /\ SelectSeq(steps[p], IsProtocolStep) = ExpectedSteps(call[p])
            /\ rv[p] # 0 => ub = 0
            /\ (rv[p] = 0 /\ raw = 0) => ub = 0
            /\ (rv[p] = 0 /\ raw \in 1 .. MAX_BRIGHT + 1) => ub = raw - 1
            /\ raw \in 0 .. MAX_BRIGHT + 1 => ub \in 0 .. MAX_BRIGHT

\* read_brightness has returned 7 for a raw level of 8
C10_Witness ==
    \E p \in Threads :
        /\ pc[p] = "L224"
        /\ rv[p] = 0
        /\ seen[p].retval0 = MAX_BRIGHT + 1
        /\ ub = MAX_BRIGHT

StepCount(p, e) == Cardinality({ i \in 1 .. Len(steps[p]) : steps[p][i] = e })
StepOps(p, op) == { steps[p][i].val : i \in { j \in 1 .. Len(steps[p]) : steps[p][j].op = op } }

\* C11: for every level 0 .. 7 stored in props.brightness, the set command of
\* update_status -> set_brightness carries opcode 0x11 and the payload
\* level + 1, a value of 1 .. 8 and never 0; the payload is the only value
\* written to retval[0], and the call that has returned has written it once
\* and triggered the firmware once.
C11_SetPayload ==
    \A p \in Threads :
        (call[p].fn = "set" /\ brightness \in 0 .. MAX_BRIGHT) =>
            /\ call[p].command = SABI_SET_BRIGHTNESS
            /\ call[p].data = brightness + 1
            /\ call[p].data \in 1 .. MAX_BRIGHT + 1
            /\ StepOps(p, "writeb_retval0") \subseteq {brightness + 1}
            /\ StepOps(p, "writew_subfunc") \subseteq {SABI_SET_BRIGHTNESS}
            /\ pc[p] = "returned" =>
                  /\ StepCount(p, E("writeb_retval0", brightness + 1)) = 1
                  /\ StepCount(p, E("writew_subfunc", SABI_SET_BRIGHTNESS)) = 1
                  /\ StepCount(p, E("outb", TheHeader.ifaceFunc)) = 1

\* set_brightness(7) has returned after sending the payload 8
C11_Witness ==
    \E p \in Threads :
        /\ pc[p] = "returned"
        /\ call[p].fn = "set"
        /\ brightness = MAX_BRIGHT
        /\ StepCount(p, E("writeb_retval0", MAX_BRIGHT + 1)) = 1

\* C12: when the firmware has stored the payload of set_brightness(L) as the
\* brightness level and has answered the command of the read_brightness() that
\* follows, read_brightness() returns L.
C12_RoundTrip ==
    \A p \in Threads :
        (pc[p] = "L224" /\ rv[p] = 0 /\ seen[p].answered /\ hw.brightness = brightness + 1)
            => ub = brightness

(***************************************************************************)
(* Properties of the header and of the interface address                   *)
(***************************************************************************)
\* C13: for the dataSegment and dataOffset words of the header, the address
\* computed for the interface window is dataSegment * 16 + dataOffset, without
\* wrap-around or truncation.
C13_InterfaceAddress ==
    pc[Main] = "L340" =>
        \A segment \in AddrWords, offset \in AddrWords :
            mem = AddrWindow(segment, offset) => ifaceP = (segment * 16) + offset

\* segment 0xFFFF and offset 0xFFFF have given 0x10FFEF
C13_Witness ==
    /\ pc[Main] = "L340"
    /\ mem = AddrWindow(65535, 65535)
    /\ ifaceP = 1114095

\* the offsets, from the sabi pointer, of the bytes that lines 328-335 read
HeaderOffsets ==
    {OFF_portNo, OFF_portNo + 1, OFF_ifaceFunc, OFF_enMem, OFF_reMem,
     OFF_dataOffset, OFF_dataOffset + 1, OFF_dataSegment, OFF_dataSegment + 1,
     OFF_BIOSifver, OFF_LauncherString}

\* C16: once the scan has found the signature and the header has been read,
\* every byte of the header, from portNo to LauncherString, lies inside the
\* mapped window.
C16_HeaderInside ==
    pc[Main] = "L338" =>
        \A off \in HeaderOffsets : sabi + off < WindowSize

(***************************************************************************)
(* Properties of command failures in the lifecycle                         *)
(***************************************************************************)
\* where samsung_init goes on after a command, by the site of the call
ContinuesAt(site) ==
    CASE site = "L347" -> "L356" [] site = "L356" -> "L360" [] site = "L360" -> "L364"
      [] site = "L364" -> "L368" [] site = "L368" -> "L371" [] site = "L371" -> "L376"
      [] site = "L219" -> "L224" [] site = "L389" -> "L392" [] site = "core" -> "idle"
\* samsung_init returned an error for a reason that is not a command
InitFailureCause ==
    \/ initRet = -ENODEV
    \/ Logged(R("ioremap", "f0000_segment", "fail"))
    \/ loca = WindowSize
    \/ Logged(R("register", "sdev", "fail"))
    \/ Logged(R("register", "backlight_device", "fail"))
C14_State ==
    /\ \A p \in Threads :
          pc[p] = "returned" =>
              /\ f0000_segment = "mapped"
              /\ sabi_iface = "mapped"
              /\ SelectSeq(steps[p], IsProtocolStep) = ExpectedSteps(call[p])
    /\ (InitReturned /\ initRet # 0) => InitFailureCause
C14_Step ==
    \A p \in Threads :
        (pc[p] = "returned" /\ rv[p] = -EINVAL /\ pc'[p] # pc[p]) =>
            /\ pc'[p] = ContinuesAt(ctx[p])
            /\ f0000_segment' = "mapped"
            /\ sabi_iface' = "mapped"
            /\ reslog' = reslog

\* C14: a call that has returned, failed or not, has run the whole protocol and
\* finds both windows mapped; after a failed call the caller goes on with its
\* next statement, mapping and unmapping nothing; and samsung_init returns an
\* error only for the DMI check, a failed mapping, a missing signature or a
\* failed registration, never for a command.
C14_FailureKeepsGoing == [](C14_State) /\ [][C14_Step]_vars

\* samsung_init has registered both devices and returned 0 although the
\* firmware never completed a command
C14_Witness ==
    /\ InitReturned
    /\ initRet = 0
    /\ ~fwWroteAA
    /\ rv[Main] = -EINVAL
    /\ sdev = "registered"
    /\ backlight_device = "registered"
    /\ f0000_segment = "mapped"
    /\ sabi_iface = "mapped"

(***************************************************************************)
(* Properties of the interface between commands                            *)
(***************************************************************************)
\* C17: a call whose trigger the firmware has not answered when the call reads
\* the interface for its test finds complete = 0 and fails, whatever complete
\* and retval[0] an earlier command left in the interface.
C17_NoStaleCompletion ==
    \A p \in Threads :
        (pc[p] = "returned" /\ ~seen[p].answered) =>
            /\ seen[p].complete = 0
            /\ rv[p] = -EINVAL

\* a call has succeeded, leaving complete = 0xaa and a valid retval[0]; the
\* next call, of another thread, was not answered and has failed
C17_Witness ==
    \E p, q \in Threads :
        /\ p # q
        /\ pc[q] = "returned"
        /\ rv[q] = 0
        /\ pc[p] = "returned"
        /\ ~seen[p].answered
        /\ rv[p] = -EINVAL
        /\ iface.complete = 0
        /\ iface.retval[1] # RETVAL_FAIL

C18_State ==
    \A p \in Threads :
        pc[p] = "returned" =>
            /\ (call[p].fn = "get" /\ rv[p] = 0) =>
                  /\ sret[p][1] = seen[p].retval0
                  /\ sret[p][1] # RETVAL_FAIL
                  /\ \A i \in COPY_LEN + 1 .. RETVAL_LEN : sret[p][i] = Garbage[i]
            /\ (call[p].fn = "get" /\ rv[p] # 0) => sret[p] = Garbage
            /\ call[p].fn = "set" => sret[p] = Garbage
C18_Step ==
    \A p \in Threads :
        (pc[p] \in LockPcs \cup AccessPcs \cup {"L141", "L169", "L191", "L209"}
            /\ pc'[p] # pc[p]) =>
            IF pc[p] = "L156"
            THEN /\ \A i \in 1 .. COPY_LEN : sret'[p][i] = iface.retval[i]
                 /\ \A i \in COPY_LEN + 1 .. RETVAL_LEN : sret'[p][i] = sret[p][i]
            ELSE sret'[p] = sret[p]

\* C18: the only step of a call that writes the caller's result is the copy of
\* a get that succeeded: it makes bytes 0..3 of the result equal to bytes 0..3
\* of the interface's retval and leaves bytes 4..19 as they were.  A get that
\* has returned 0 holds the retval[0] that its test read, which is not 0xff; a
\* get that has failed, and any set, leaves the caller's result unchanged.
C18_ResultFrame == [](C18_State) /\ [][C18_Step]_vars

\* a get has returned 0 with the four bytes of the firmware in front of the
\* sixteen bytes the caller had
C18_Witness ==
    \E p \in Threads :
        /\ pc[p] = "returned"
        /\ call[p].fn = "get"
        /\ rv[p] = 0
        /\ SubSeq(sret[p], 1, COPY_LEN) = <<1, 49, 51, 48>>
        /\ SubSeq(sret[p], COPY_LEN + 1, RETVAL_LEN) = SubSeq(Garbage, COPY_LEN + 1, RETVAL_LEN)

IsOutb(e) == e.op = "outb"
\* the bytes a call has written to the port, in order
PortWrites(p) == [i \in 1 .. Len(SelectSeq(steps[p], IsOutb)) |->
                     SelectSeq(steps[p], IsOutb)[i].val]

\* C19: whenever the mutex is free, the last byte written to the port, if any,
\* is the restore code reMem; a call that has returned, with success or with
\* failure, wrote enMem, ifaceFunc and reMem in this order, and a call that has
\* written enMem and not yet reMem holds the mutex.
C19_RestoredWhenFree ==
    /\ sabi_mutex = Free => lastOut \in {-1, TheHeader.reMem}
    /\ \A p \in Threads :
          /\ pc[p] = "returned" =>
                PortWrites(p) = <<TheHeader.enMem, TheHeader.ifaceFunc, TheHeader.reMem>>
          /\ (PortWrites(p) # << >> /\ Len(PortWrites(p)) < 3) => sabi_mutex = {p}

\* a failed call and a successful call have returned, the mutex is free and
\* the port holds the restore code
C19_Witness ==
    /\ sabi_mutex = Free
    /\ lastOut = TheHeader.reMem
    /\ \E p, q \in Threads :
          /\ pc[p] = "returned" /\ rv[p] = -EINVAL
          /\ pc[q] = "returned" /\ rv[q] = 0

(***************************************************************************)
(* Termination of the calls                                                *)
(***************************************************************************)
\* the steps of a call of thread p
engine_step(p) == sabi_get_command(p) \/ sabi_set_command(p)

\* Scheduling: a thread that can take a step of its call eventually takes it,
\* and a thread waiting for the mutex acquires it if the mutex is free again
\* and again.  Nothing is assumed of the firmware or of the callers' decision
\* to call.
FairCalls ==
    \A p \in Callers :
        /\ WF_vars(engine_step(p) /\ pc[p] \notin LockPcs)
        /\ SF_vars(engine_step(p) /\ pc[p] \in LockPcs)

SpecEngineFair == InitEngine /\ [][NextEngine]_vars /\ FairCalls

\* position of the first step of kind op in the steps of p, 0 if there is none
FirstStep(p, op) ==
    IF \E i \in 1 .. Len(steps[p]) : steps[p][i].op = op
    THEN CHOOSE i \in 1 .. Len(steps[p]) :
            steps[p][i].op = op /\ \A j \in 1 .. i - 1 : steps[p][j].op # op
    ELSE 0
C15_SampledOnce ==
    \A p \in Callers :
        pc[p] = "returned" =>
            /\ rv[p] \in {0, -EINVAL}
            /\ StepCount(p, E("validate", 0)) = 1
            /\ StepCount(p, E("msleep", SLEEP_MS)) = 1
            /\ FirstStep(p, "msleep") < FirstStep(p, "validate")

\* C15: with threads that are scheduled and a mutex that is fair, every call
\* that has been entered returns, whether or not the firmware ever answers; the
\* call that has returned slept once, read the interface for its test once,
\* after the sleep, and returned 0 or -EINVAL.
C15_EveryCallReturns ==
    /\ \A p \in Callers : (pc[p] \in LockPcs) ~> (pc[p] = "returned")
    /\ [](C15_SampledOnce)

\* a call has returned a failure without any answer of the firmware while
\* another caller waits for the mutex
C15_Witness ==
    \E p, q \in Callers :
        /\ p # q
        /\ pc[p] = "returned"
        /\ rv[p] = -EINVAL
        /\ ~seen[p].answered
        /\ seen[p].complete = 0
        /\ pc[q] \in LockPcs

(***************************************************************************)
(* Commands and the lifetime of the windows                                *)
(***************************************************************************)
\* positions of a call, from the wait for the mutex to its release
CallPcs == LockPcs \cup AccessPcs \cup {"L141", "L169", "L191", "L209"}

\* C20: whenever a thread is inside sabi_get_command or sabi_set_command, from
\* its wait for the mutex to the release of the mutex, the firmware window and
\* the interface window are both mapped: no step of a command runs before
\* samsung_init has mapped them or after an error path of samsung_init or
\* samsung_exit has unmapped one of them.
C20_CommandsWhileMapped ==
    \A p \in Threads :
        pc[p] \in CallPcs => (f0000_segment = "mapped" /\ sabi_iface = "mapped")

\* samsung_init has returned 0 and a brightness update of the backlight
\* surface is inside its command
C20_Witness ==
    /\ pc[Main] = "init_returned"
    /\ initRet = 0
    /\ pc[Updater] \in BetweenPcs
    /\ call[Updater].command = SABI_SET_BRIGHTNESS
    /\ f0000_segment = "mapped"
    /\ sabi_iface = "mapped"

=============================================================================
